---- MODULE Spec2Model ----
(***************************************************************************)
(* Model of the message-passing primitives of neatworks:                   *)
(*   src/src/channel.rs  event channel, promise, submit, subscribe         *)
(*   src/src/app.rs      Null::submit_loop, the default responder          *)
(*   src/src/net.rs      UdpSocket / UdpTransport                          *)
(* The specifications of the module:                                       *)
(*   Spec     the submit primitive: clients, one responder task            *)
(*   SpecSub  the subscribe primitive: subscribers, one publisher task     *)
(*   SpecNet  UdpTransport::send_to and UdpTransport::send_to_all          *)
(*   SpecListen  UdpSocket::listen_session: two loops on one socket        *)
(*   SpecEvent   one event channel, two producers, one consumer            *)
(*   SpecFair, SpecListenFair  the same with the scheduler's fairness      *)
(***************************************************************************)
EXTENDS Integers, Sequences, FiniteSets, TLC

\* ----------------------------------------------------------------- bounds
NClients == 2
MaxCalls == 2
MaxSubs == 1
MaxEvents == 2
MaxDests == 3
MaxDgrams == 2
MaxMsgs == 2

Clients == 1..NClients
Calls == 1..MaxCalls
\* T, the operations, and U: Default, the replies; Default is U::default().
Ops == {"opA", "opB"}
Default == "default"
Values == {Default, "other"}
NoVal == "none"
\* Subscription requests and the values published on a stream.
Streams == 1..MaxSubs
Reqs == {"reqA", "reqB"}
Events == {"e1", "e2"}

VARIABLES
  \* ---- submit primitive (Spec)
  submitCh,   \* the submit channel: [q, tx, rx]
  handle,     \* handle[c]: client c owns a SubmitHandle clone
  promise,    \* promise[p]: the oneshot pair created by submit call p
  callOp,     \* callOp[p]: the operation of submit call p (0: not made)
  cpc,        \* cpc[c]: [st, call] position of client c
  obs,        \* obs[p]: what submit call p returned to its caller
  sendLog,    \* sendLog[p]: the send of submit call p, as it happened
  resolved,   \* resolved[p]: the values the responder resolved p with
  server,     \* the responder task
  lastRecv,   \* the last read of the submit source by the responder
  stderr,     \* lines printed by PromiseSender::resolve
  \* ---- subscribe primitive (SpecSub)
  subCh,      \* the subscribe channel: [q, tx, rx]
  stream,     \* stream[s]: the event channel created by subscribe call s
  prodAt,     \* prodAt[s]: where the event-producer of s is
  srcAt,      \* srcAt[s]: where the receiver of s is
  subLog,     \* subLog[s]: subscribe call s, as it happened
  sent,       \* sent[s]: the values the publisher sent on s with success
  got,        \* got[s]: the values the caller read from s
  lastRead,   \* lastRead[s]: the caller's last read of s
  lastSend,   \* the publisher's last EventSender::send
  pub,        \* the publisher task: "running" | "stopped"
  \* ---- datagram transport (SpecNet)
  call,       \* the transport call in progress or last made
  wire,       \* the datagrams that left the socket during that call
  \* ---- receive loop (SpecListen)
  sockq,      \* the socket's receive queue: ids of datagrams not yet taken
  arrived,    \* arrived[id]: [payload, msg, late] of every datagram received
  stop,       \* the CancellationToken
  nreq,       \* the number of cancel() calls made on it
  sess,       \* sess[l]: the listen_session l
  taken,      \* taken[l]: the datagrams recv_from returned to l, in order
  evCh,       \* the event channel the sessions publish on
  published,  \* the events sent on it with success, in order
  \* ---- event channel (SpecEvent)
  ech,        \* the channel: [q, tx, rx]
  eprod,      \* eprod[i]: producer i still holds its EventSender
  esent,      \* the messages sent with success, in order: [by, n]
  egot,       \* the messages the consumer was yielded, in order
  eclosed     \* the closure the consumer observed, if any

chanVars == <<submitCh, handle, promise, callOp, cpc, obs, sendLog,
              resolved, server, lastRecv, stderr>>

subVars == <<subCh, stream, prodAt, srcAt, subLog, sent, got, lastRead,
             lastSend, pub>>

netVars == <<call, wire>>

lsnVars == <<sockq, arrived, stop, nreq, sess, taken, evCh, published>>

evVars == <<ech, eprod, esent, egot, eclosed>>

vars == <<chanVars, subVars, netVars, lsnVars, evVars, lsnVars, evVars>>

\* ------------------------------------------------- event channel (tokio)
\* event_channel(): one sender handle, the receiver, an empty queue.
event_channel == [q |-> <<>>, tx |-> 1, rx |-> TRUE]

\* Mutant: a channel of capacity one, full once a message is queued.
EventSendBounded(ch, m) ==
  IF ch.rx /\ Len(ch.q) < 1
    THEN [ok |-> TRUE, ch |-> [ch EXCEPT !.q = Append(@, m)]]
  ELSE [ok |-> FALSE, ch |-> ch]

\* Mutant: a send that reports success on a closed channel and loses the
\* message.
EventSendSilent(ch, m) ==
  IF ch.rx THEN [ok |-> TRUE, ch |-> [ch EXCEPT !.q = Append(@, m)]]
  ELSE [ok |-> TRUE, ch |-> ch]

\* EventSender::send: UnboundedSender::send fails only when the receiver
\* half is gone; otherwise the message is appended, whatever the length.
EventSend(ch, m) ==
  IF ch.rx THEN [ok |-> TRUE, ch |-> [ch EXCEPT !.q = Append(@, m)]]
  ELSE [ok |-> FALSE, ch |-> ch]

\* Mutant: try_recv in place of recv, an empty queue taken for closure.
EventRecvTry(ch) ==
  IF Len(ch.q) > 0
    THEN [st |-> "some", msg |-> Head(ch.q), ch |-> [ch EXCEPT !.q = Tail(@)]]
  ELSE [st |-> "none", msg |-> NoVal, ch |-> ch]

\* Mutant: the newest message is yielded first.
EventRecvLifo(ch) ==
  IF Len(ch.q) > 0
    THEN [st |-> "some", msg |-> ch.q[Len(ch.q)],
          ch |-> [ch EXCEPT !.q = SubSeq(@, 1, Len(@) - 1)]]
  ELSE IF ch.tx = 0
    THEN [st |-> "none", msg |-> NoVal, ch |-> ch]
  ELSE [st |-> "pending", msg |-> NoVal, ch |-> ch]

\* UnboundedReceiver::recv: the head of the queue when there is one; None
\* once the queue is empty and every sender is gone; pending otherwise.
EventRecv(ch) ==
  IF Len(ch.q) > 0
    THEN [st |-> "some", msg |-> Head(ch.q), ch |-> [ch EXCEPT !.q = Tail(@)]]
  ELSE IF ch.tx = 0
    THEN [st |-> "none", msg |-> NoVal, ch |-> ch]
  ELSE [st |-> "pending", msg |-> NoVal, ch |-> ch]

\* Mutant: next() without the ok_or, closure passed on as an empty outcome.
EventNextNoError(ch) == EventRecv(ch)

\* EventSource::next: recv().await.ok_or(err!("unexpected source closing"))
EventNext(ch) ==
  LET r == EventRecv(ch) IN
  IF r.st = "none" THEN [r EXCEPT !.st = "ChannelClosed"] ELSE r

\* EventSource::option_next: recv().await
EventOptionNext(ch) == EventRecv(ch)

\* ------------------------------------------------------ promise (oneshot)
Ok(v) == [tag |-> "Ok", val |-> v]
Err(k) == [tag |-> k, val |-> NoVal]

NoPromise == [tx |-> "none", rx |-> "none", cell |-> NoVal]

\* promise_channel(): a live producer, a live receiver, an empty cell.
promise_channel == [tx |-> "live", rx |-> "live", cell |-> NoVal]

\* Mutant: the value is replaced by the default one on the way.
PromiseResolveDefault(pr, v) ==
  IF pr.rx = "live"
    THEN [pr |-> [pr EXCEPT !.tx = "used", !.cell = Default],
          logged |-> 0, ret |-> "unit"]
  ELSE [pr |-> [pr EXCEPT !.tx = "used"], logged |-> 1, ret |-> "unit"]

\* Mutant: the failed delivery is unwrapped, which panics the resolver.
PromiseResolveUnwrap(pr, v) ==
  IF pr.rx = "live"
    THEN [pr |-> [pr EXCEPT !.tx = "used", !.cell = v],
          logged |-> 0, ret |-> "unit"]
  ELSE [pr |-> [pr EXCEPT !.tx = "used"], logged |-> 0, ret |-> "panic"]

\* PromiseSender::resolve(self, value): oneshot send consumes the producer.
\* With the receiver gone the value is dropped, one line goes to stderr and
\* the call returns (): ret is what the resolving task sees.
PromiseResolve(pr, v) ==
  IF pr.rx = "live"
    THEN [pr |-> [pr EXCEPT !.tx = "used", !.cell = v],
          logged |-> 0, ret |-> "unit"]
  ELSE [pr |-> [pr EXCEPT !.tx = "used"], logged |-> 1, ret |-> "unit"]

\* oneshot::Sender::send as Null::submit_loop calls it: Err when the
\* receiver is gone.
ReplySend(pr, v) ==
  IF pr.rx = "live"
    THEN [pr |-> [pr EXCEPT !.tx = "used", !.cell = v], ok |-> TRUE]
  ELSE [pr |-> [pr EXCEPT !.tx = "used"], ok |-> FALSE]

\* promise.await: the value once resolved, RecvError (RequestFailed) once
\* the producer was dropped unresolved, pending while it is live.
PromiseAwait(pr) ==
  IF pr.tx = "used" /\ pr.cell # NoVal THEN [st |-> "ready", out |-> Ok(pr.cell)]
  ELSE IF pr.tx = "dropped" THEN [st |-> "ready", out |-> Err("RequestFailed")]
  ELSE [st |-> "pending", out |-> Err("pending")]

\* Mutant: the queued pairs are leaked, their producers stay alive.
DropQueuedLeak(prom, q) == prom

\* Dropping queued (op, PromiseSender) pairs drops their producers.
RECURSIVE DropQueued(_, _)
DropQueued(prom, q) ==
  IF q = <<>> THEN prom
  ELSE DropQueued([prom EXCEPT ![Head(q).p].tx = "dropped"], Tail(q))

\* Dropping the receiver half: the channel is closed and what is still
\* queued is dropped with it.
DropSource(ch) == [ch EXCEPT !.rx = FALSE, !.q = <<>>]

\* ------------------------------------------------------- submit primitive
NoSend == [made |-> FALSE, rx |-> FALSE, enq |-> 0]

NextCall == Cardinality({p \in Calls : callOp[p] # NoVal}) + 1

Running == server.pc # "stopped"

NoSub == [made |-> FALSE, req |-> NoVal, rx |-> FALSE, enq |-> 0, ret |-> "none"]
NoRead == [via |-> "none", st |-> "none", gone |-> FALSE, qlen |-> 0]
NoEventSend == [made |-> FALSE, rx |-> FALSE, qlen |-> 0, ok |-> FALSE,
                enq |-> 0]
NoStream == [q |-> <<>>, tx |-> 0, rx |-> FALSE]

\* The subscribe primitive before any call, with a handle and a publisher.
SubIdle ==
  /\ subCh = event_channel
  /\ stream = [s \in Streams |-> NoStream]
  /\ prodAt = [s \in Streams |-> "none"]
  /\ srcAt = [s \in Streams |-> "none"]
  /\ subLog = [s \in Streams |-> NoSub]
  /\ sent = [s \in Streams |-> <<>>]
  /\ got = [s \in Streams |-> <<>>]
  /\ lastRead = [s \in Streams |-> NoRead]
  /\ lastSend = NoEventSend
  /\ pub = "running"

NoCall == [op |-> "none", dests |-> <<>>, msg |-> NoVal, i |-> 0,
           buf |-> <<>>, encodes |-> 0, result |-> "none"]

\* The transport before any call.
NetIdle == call = NoCall /\ wire = <<>>

\* The two listen_session loops of the model, and the producers of the
\* event channel of SpecEvent.
Sessions == {"l1", "l2"}
Producers == {"p1", "p2"}

NoSession == [st |-> "Idle", pc |-> "select", cur |-> 0, err |-> "none",
              ret |-> "none"]

\* A bound socket, nothing received, the token not cancelled, no session
\* started; every session's caller holds a clone of the event producer.
LsnIdle ==
  /\ sockq = <<>>
  /\ arrived = <<>>
  /\ stop = [cancelled |-> FALSE]
  /\ nreq = 0
  /\ sess = [l \in Sessions |-> NoSession]
  /\ taken = [l \in Sessions |-> <<>>]
  /\ evCh = [event_channel EXCEPT !.tx = Cardinality(Sessions)]
  /\ published = <<>>

\* An event channel as event_channel() returns it: the first producer
\* holds the sender, nothing was sent or read.
EvIdle ==
  /\ ech = event_channel
  /\ eprod = [i \in Producers |-> i = "p1"]
  /\ esent = <<>>
  /\ egot = <<>>
  /\ eclosed = [seen |-> "no", drained |-> 0]

\* The submit primitive before any call: one handle, a responder of one of
\* the given kinds holding the submit source.
SubmitIdle(kinds) ==
  /\ submitCh = event_channel
  /\ handle = [c \in Clients |-> c = 1]
  /\ promise = [p \in Calls |-> NoPromise]
  /\ callOp = [p \in Calls |-> NoVal]
  /\ cpc = [c \in Clients |-> [st |-> "idle", call |-> 0]]
  /\ obs = [p \in Calls |-> <<>>]
  /\ sendLog = [p \in Calls |-> NoSend]
  /\ resolved = [p \in Calls |-> <<>>]
  /\ server \in {[kind |-> k, pc |-> "recv", cur |-> 0, exit |-> "running"] :
                   k \in kinds}
  /\ lastRecv = [via |-> "none", tx0 |-> FALSE, qlen |-> 0, st |-> "none"]
  /\ stderr = 0

Init == SubmitIdle({"custom", "null"}) /\ SubIdle /\ NetIdle /\ LsnIdle /\ EvIdle

\* impl Clone for EventSender: one more producer handle.
CloneHandle(c, d) ==
  /\ handle[c] /\ ~handle[d]
  /\ handle' = [handle EXCEPT ![d] = TRUE]
  /\ submitCh' = [submitCh EXCEPT !.tx = @ + 1]
  /\ UNCHANGED <<subVars, netVars, lsnVars, evVars, promise, callOp, cpc, obs, sendLog, resolved, server,
                 lastRecv, stderr>>

\* Dropping a SubmitHandle (not while a submit future borrows it).
DropHandle(c) ==
  /\ handle[c] /\ cpc[c].st = "idle"
  /\ handle' = [handle EXCEPT ![c] = FALSE]
  /\ submitCh' = [submitCh EXCEPT !.tx = @ - 1]
  /\ UNCHANGED <<subVars, netVars, lsnVars, evVars, promise, callOp, cpc, obs, sendLog, resolved, server,
                 lastRecv, stderr>>

\* SubmitHandle::submit up to its await: promise_channel(), then
\* self.send((op, result))?. A failed send returns the error at once and
\* drops both halves of the promise.
SubmitSend(c, o) ==
  LET p == NextCall
      r == EventSend(submitCh, [op |-> o, p |-> p])
      log == [made |-> TRUE, rx |-> submitCh.rx,
              enq |-> Len(r.ch.q) - Len(submitCh.q)] IN
  /\ handle[c] /\ cpc[c].st = "idle" /\ p <= MaxCalls
  /\ callOp' = [callOp EXCEPT ![p] = o]
  /\ submitCh' = r.ch
  /\ IF r.ok
       THEN /\ promise' = [promise EXCEPT ![p] = promise_channel]
            /\ cpc' = [cpc EXCEPT ![c] = [st |-> "awaiting", call |-> p]]
            /\ sendLog' = [sendLog EXCEPT ![p] = log]
            /\ obs' = obs
       ELSE /\ promise' = [promise EXCEPT ![p] =
                             [tx |-> "dropped", rx |-> "dropped", cell |-> NoVal]]
            /\ cpc' = cpc
            /\ sendLog' = [sendLog EXCEPT ![p] = log]
            /\ obs' = [obs EXCEPT ![p] = Append(@, Err("ChannelClosed"))]
  /\ UNCHANGED <<subVars, netVars, lsnVars, evVars, handle, resolved, server, lastRecv, stderr>>

\* SubmitHandle::submit from its await: Ok(promise.await?).
SubmitAwait(c) ==
  LET p == cpc[c].call
      a == PromiseAwait(promise[p]) IN
  /\ cpc[c].st = "awaiting"
  /\ a.st = "ready"
  /\ obs' = [obs EXCEPT ![p] = Append(@, a.out)]
  /\ promise' = [promise EXCEPT ![p].rx = "done"]
  /\ cpc' = [cpc EXCEPT ![c] = [st |-> "idle", call |-> 0]]
  /\ UNCHANGED <<subVars, netVars, lsnVars, evVars, submitCh, handle, callOp, sendLog, resolved, server,
                 lastRecv, stderr>>

\* The caller drops the submit future while it is suspended: the promise
\* receiver goes with it and the call returns nothing.
SubmitCancel(c) ==
  LET p == cpc[c].call IN
  /\ cpc[c].st = "awaiting"
  /\ promise' = [promise EXCEPT ![p].rx = "dropped"]
  /\ cpc' = [cpc EXCEPT ![c] = [st |-> "idle", call |-> 0]]
  /\ UNCHANGED <<subVars, netVars, lsnVars, evVars, submitCh, handle, callOp, obs, sendLog, resolved, server,
                 lastRecv, stderr>>

\* ---- a responder written against channel.rs: it reads the submit source
\* with next() or option_next(), then resolves or drops the producer.
ServerRead(via) ==
  LET r == IF via = "next" THEN EventNext(submitCh)
           ELSE EventOptionNext(submitCh) IN
  /\ server.kind = "custom" /\ server.pc = "recv"
  /\ r.st # "pending"
  /\ lastRecv' = [via |-> via, tx0 |-> submitCh.tx = 0,
                  qlen |-> Len(submitCh.q), st |-> r.st]
  /\ submitCh' = r.ch
  /\ server' = IF r.st = "some"
                 THEN [server EXCEPT !.pc = "handling", !.cur = r.msg.p]
               ELSE server
  /\ UNCHANGED <<subVars, netVars, lsnVars, evVars, handle, promise, callOp, cpc, obs, sendLog, resolved,
                 stderr>>

\* What a task does with the return of a call: go on, or end.
AfterCall(srv, ret) ==
  IF ret = "unit" THEN [srv EXCEPT !.pc = "recv", !.cur = 0]
  ELSE [srv EXCEPT !.pc = "stopped", !.cur = 0, !.exit = ret]

ServerResolve(v) ==
  LET p == server.cur
      r == PromiseResolve(promise[p], v) IN
  /\ server.kind = "custom" /\ server.pc = "handling"
  /\ promise[p].tx = "live"
  /\ resolved' = [resolved EXCEPT ![p] = Append(@, v)]
  /\ stderr' = stderr + r.logged
  /\ server' = AfterCall(server, r.ret)
  /\ IF r.ret = "unit"
       THEN /\ promise' = [promise EXCEPT ![p] = r.pr]
            /\ submitCh' = submitCh
       ELSE /\ promise' = DropQueued([promise EXCEPT ![p] = r.pr], submitCh.q)
            /\ submitCh' = DropSource(submitCh)
  /\ UNCHANGED <<subVars, netVars, lsnVars, evVars, handle, callOp, cpc, obs, sendLog, lastRecv>>

\* The responder drops the producer it holds without resolving it.
ServerDropPromise ==
  LET p == server.cur IN
  /\ server.kind = "custom" /\ server.pc = "handling"
  /\ promise' = [promise EXCEPT ![p].tx = "dropped"]
  /\ server' = [server EXCEPT !.pc = "recv", !.cur = 0]
  /\ UNCHANGED <<subVars, netVars, lsnVars, evVars, submitCh, handle, callOp, cpc, obs, sendLog, resolved,
                 lastRecv, stderr>>

\* The responder task ends: the submit source is dropped, and with it the
\* queued pairs and the producer in hand.
ServerStop ==
  LET held == IF server.pc = "handling"
                THEN [promise EXCEPT ![server.cur].tx = "dropped"]
              ELSE promise IN
  /\ server.kind = "custom" /\ Running
  /\ promise' = DropQueued(held, submitCh.q)
  /\ submitCh' = DropSource(submitCh)
  /\ server' = [server EXCEPT !.pc = "stopped", !.cur = 0, !.exit = "ok"]
  /\ UNCHANGED <<subVars, netVars, lsnVars, evVars, handle, callOp, cpc, obs, sendLog, resolved, lastRecv,
                 stderr>>

\* ---- Null::submit_loop: one iteration of
\*   while let Some((_, reply)) = receiver.recv().await {
\*       reply.send(Default::default()).map_err(..)? }  Ok(())
NullStep ==
  LET r == EventRecv(submitCh)
      p == r.msg.p
      s == ReplySend(promise[p], Default) IN
  /\ server.kind = "null" /\ server.pc = "recv"
  /\ r.st # "pending"
  /\ lastRecv' = [via |-> "recv", tx0 |-> submitCh.tx = 0,
                  qlen |-> Len(submitCh.q), st |-> r.st]
  /\ IF r.st = "some"
       THEN /\ resolved' = [resolved EXCEPT ![p] = Append(@, Default)]
            /\ IF s.ok
                 THEN /\ promise' = [promise EXCEPT ![p] = s.pr]
                      /\ submitCh' = r.ch
                      /\ server' = server
                 ELSE /\ promise' = DropQueued([promise EXCEPT ![p] = s.pr], r.ch.q)
                      /\ submitCh' = DropSource(r.ch)
                      /\ server' = [server EXCEPT !.pc = "stopped", !.exit = "err"]
       ELSE /\ resolved' = resolved
            /\ promise' = promise
            /\ submitCh' = DropSource(submitCh)
            /\ server' = [server EXCEPT !.pc = "stopped", !.exit = "ok"]
  /\ UNCHANGED <<subVars, netVars, lsnVars, evVars, handle, callOp, cpc, obs, sendLog, stderr>>

Next ==
  \/ \E c, d \in Clients : CloneHandle(c, d)
  \/ \E c \in Clients : DropHandle(c)
  \/ \E c \in Clients, o \in Ops : SubmitSend(c, o)
  \/ \E c \in Clients : SubmitAwait(c)
  \/ \E c \in Clients : SubmitCancel(c)
  \/ \E via \in {"next", "option_next"} : ServerRead(via)
  \/ \E v \in Values : ServerResolve(v)
  \/ ServerDropPromise
  \/ ServerStop
  \/ NullStep

Spec == Init /\ [][Next]_vars

\* ------------------------------------------------------------ claims
Returned(p) == obs[p] # <<>>

\* C1: a submit call whose producer the responder resolved with v returns
\* Ok(v), once, and nothing else; a call that returned Ok(v) was resolved
\* with that v; a suspended call whose producer was resolved is ready to
\* return that value; under Null::submit_loop the value is the default one.
C1_SubmitReturnsResolved ==
  /\ \A p \in Calls :
       /\ Len(obs[p]) <= 1
       /\ (Returned(p) /\ resolved[p] # <<>>) => obs[p] = <<Ok(resolved[p][1])>>
       /\ (Returned(p) /\ obs[p][1].tag = "Ok") => resolved[p] = <<obs[p][1].val>>
       /\ (Returned(p) /\ resolved[p] # <<>> /\ server.kind = "null")
            => obs[p] = <<Ok(Default)>>
  /\ \A c \in Clients :
       (cpc[c].st = "awaiting" /\ resolved[cpc[c].call] # <<>>)
         => PromiseAwait(promise[cpc[c].call]) =
              [st |-> "ready", out |-> Ok(resolved[cpc[c].call][1])]

\* Two calls with different operations, each returned the value resolved
\* for it, and the two values differ.
C1_Witness ==
  /\ callOp[1] = "opA" /\ callOp[2] = "opB"
  /\ obs[1] = <<Ok("other")>> /\ obs[2] = <<Ok(Default)>>
  /\ resolved[1] = <<"other">> /\ resolved[2] = <<Default>>

\* C2: submit returns ChannelClosed exactly when the submit source was gone
\* at send time (nothing enqueued, the promise never awaited); it returns
\* RequestFailed only for a delivered pair whose producer was dropped
\* unresolved, and a suspended call in that case is ready to return it; it
\* returns no other error.
C2_SubmitErrors ==
  /\ \A p \in Calls :
       /\ (obs[p] = <<Err("ChannelClosed")>>) <=> (sendLog[p].made /\ ~sendLog[p].rx)
       /\ (sendLog[p].made /\ ~sendLog[p].rx)
            => sendLog[p].enq = 0 /\ promise[p].rx = "dropped"
       /\ (sendLog[p].made /\ sendLog[p].rx) => sendLog[p].enq = 1
       /\ (obs[p] = <<Err("RequestFailed")>>)
            => /\ sendLog[p].rx /\ sendLog[p].enq = 1
               /\ promise[p].tx = "dropped" /\ resolved[p] = <<>>
       /\ Returned(p) => obs[p][1].tag \in {"Ok", "ChannelClosed", "RequestFailed"}
  /\ \A c \in Clients :
       (cpc[c].st = "awaiting" /\ promise[cpc[c].call].tx = "dropped")
         => PromiseAwait(promise[cpc[c].call]) =
              [st |-> "ready", out |-> Err("RequestFailed")]

\* One call refused at send time and one delivered call that failed.
C2_Witness ==
  \E p, q \in Calls :
    /\ obs[p] = <<Err("ChannelClosed")>>
    /\ obs[q] = <<Err("RequestFailed")>>

ClosureRead == lastRecv.via \in {"next", "option_next"} /\ lastRecv.tx0

ClosureOutcome ==
  /\ lastRecv.via = "next" => lastRecv.st = "ChannelClosed"
  /\ lastRecv.via = "option_next" => lastRecv.st = "none"

\* C3 as stated: every read made after the last producer handle was dropped
\* reports closure (next: ChannelClosed, option_next: the empty outcome).
C3_AsStated == ClosureRead => ClosureOutcome

\* C3, amended: a read made after the last producer handle was dropped
\* yields a message while one is still queued, and reports closure (next:
\* ChannelClosed, option_next: the empty outcome) once the queue is empty.
C3_ClosedOnceDrained ==
  ClosureRead =>
    /\ lastRecv.qlen = 0 => ClosureOutcome
    /\ lastRecv.qlen > 0 => lastRecv.st = "some"

\* next() failed on a channel without producers and with an empty queue.
C3_Witness ==
  /\ ClosureRead /\ lastRecv.qlen = 0
  /\ lastRecv.via = "next" /\ lastRecv.st = "ChannelClosed"

ResolvesOnDropped ==
  /\ server.pc = "handling"
  /\ promise[server.cur].rx # "live"
  /\ resolved'[server.cur] # resolved[server.cur]

\* C5: a resolve on a promise whose receiver is gone returns normally: the
\* responder task is at its next step, still running and still holding the
\* submit source, and the producer is consumed; no promise is resolved
\* more than once.
C5_ResolveOnDropped ==
  /\ [](\A p \in Calls : Len(resolved[p]) <= 1)
  /\ [][ResolvesOnDropped =>
          /\ server'.pc = "recv" /\ server'.exit = "running"
          /\ submitCh'.rx = submitCh.rx
          /\ promise'[server.cur].tx = "used"
          /\ promise'[server.cur].cell = NoVal]_vars

\* The responder resolved a promise whose receiver was gone and has gone
\* on to take the next request.
C5_Witness ==
  /\ server.kind = "custom" /\ stderr = 1
  /\ server.pc = "handling"
  /\ \E p \in Calls : resolved[p] # <<>> /\ promise[p].rx = "dropped"

\* ---------------------------------------------------- subscribe primitive
NextSub == Cardinality({s \in Streams : subLog[s].made}) + 1

\* Dropping queued (request, EventSender) pairs drops their producers.
RECURSIVE DropQueuedProducers(_, _)
DropQueuedProducers(str, q) ==
  IF q = <<>> THEN str
  ELSE DropQueuedProducers([str EXCEPT ![Head(q).s].tx = 0], Tail(q))

RECURSIVE MarkDropped(_, _)
MarkDropped(at, q) ==
  IF q = <<>> THEN at
  ELSE MarkDropped([at EXCEPT ![Head(q).s] = "dropped"], Tail(q))

InitSub == SubmitIdle({"custom"}) /\ SubIdle /\ NetIdle /\ LsnIdle /\ EvIdle

\* Mutant: the pair is sent twice.
SubscribeSendTwice(ch, r, s) ==
  LET x == EventSend(ch, [req |-> r, s |-> s]) IN
  EventSend(x.ch, [req |-> r, s |-> s])

\* self.send((op, event)) in subscribe.
SubscribeSend(ch, r, s) == EventSend(ch, [req |-> r, s |-> s])

\* SubscribeHandle::subscribe: event_channel(), self.send((op, event))?,
\* Ok(source). A failed send drops both halves of the new channel.
Subscribe(r) ==
  LET s == NextSub
      x == SubscribeSend(subCh, r, s)
      log == [made |-> TRUE, req |-> r, rx |-> subCh.rx,
              enq |-> Len(x.ch.q) - Len(subCh.q),
              ret |-> IF x.ok THEN "Ok" ELSE "ChannelClosed"] IN
  /\ subCh.tx > 0 /\ s <= MaxSubs
  /\ subCh' = x.ch
  /\ subLog' = [subLog EXCEPT ![s] = log]
  /\ IF x.ok
       THEN /\ stream' = [stream EXCEPT ![s] = event_channel]
            /\ prodAt' = [prodAt EXCEPT ![s] = "queued"]
            /\ srcAt' = [srcAt EXCEPT ![s] = "caller"]
       ELSE /\ stream' = [stream EXCEPT ![s] = NoStream]
            /\ prodAt' = [prodAt EXCEPT ![s] = "dropped"]
            /\ srcAt' = [srcAt EXCEPT ![s] = "dropped"]
  /\ UNCHANGED <<chanVars, netVars, lsnVars, evVars, sent, got, lastRead, lastSend, pub>>

\* The subscriber drops its SubscribeHandle.
DropSubscribeHandle ==
  /\ subCh.tx > 0
  /\ subCh' = [subCh EXCEPT !.tx = 0]
  /\ UNCHANGED <<chanVars, netVars, lsnVars, evVars, stream, prodAt, srcAt, subLog, sent, got,
                 lastRead, lastSend, pub>>

\* The publisher takes the next (request, event-producer) pair from the
\* subscribe source with option_next(); it ends when the source is closed.
PubAccept ==
  LET r == EventOptionNext(subCh) IN
  /\ pub = "running"
  /\ r.st # "pending"
  /\ IF r.st = "some"
       THEN /\ subCh' = r.ch
            /\ prodAt' = [prodAt EXCEPT ![r.msg.s] = "held"]
            /\ pub' = pub
       ELSE /\ subCh' = DropSource(subCh)
            /\ prodAt' = prodAt
            /\ pub' = "stopped"
  /\ UNCHANGED <<chanVars, netVars, lsnVars, evVars, stream, srcAt, subLog, sent, got, lastRead,
                 lastSend>>

RECURSIVE SumLen(_, _)
SumLen(f, n) == IF n = 0 THEN 0 ELSE Len(f[n]) + SumLen(f, n - 1)

\* The number of values published so far, on all streams.
NSent == SumLen(sent, MaxSubs)

\* EventSender::send(value) on the producer of subscription s.
PubSend(s, v) ==
  LET x == EventSend(stream[s], v)
      log == [made |-> TRUE, rx |-> stream[s].rx, qlen |-> Len(stream[s].q),
              ok |-> x.ok, enq |-> Len(x.ch.q) - Len(stream[s].q)] IN
  /\ prodAt[s] = "held"
  /\ NSent < MaxEvents
  /\ stream' = [stream EXCEPT ![s] = x.ch]
  /\ sent' = [sent EXCEPT ![s] = IF x.ok THEN Append(@, v) ELSE @]
  /\ lastSend' = log
  /\ UNCHANGED <<chanVars, netVars, lsnVars, evVars, subCh, prodAt, srcAt, subLog, got, lastRead, pub>>

\* The holder of the event-producer of s drops it.
PubDrop(s) ==
  /\ prodAt[s] = "held"
  /\ prodAt' = [prodAt EXCEPT ![s] = "dropped"]
  /\ stream' = [stream EXCEPT ![s].tx = 0]
  /\ UNCHANGED <<chanVars, netVars, lsnVars, evVars, subCh, srcAt, subLog, sent, got, lastRead,
                 lastSend, pub>>

\* The publisher task ends early: the subscribe source is dropped and the
\* pairs still queued, producers included, with it.
PubStop ==
  /\ pub = "running"
  /\ pub' = "stopped"
  /\ stream' = DropQueuedProducers(stream, subCh.q)
  /\ prodAt' = MarkDropped(prodAt, subCh.q)
  /\ subCh' = DropSource(subCh)
  /\ UNCHANGED <<chanVars, netVars, lsnVars, evVars, srcAt, subLog, sent, got, lastRead, lastSend>>

\* The caller reads the stream subscribe returned, with next() or
\* option_next().
StreamRead(s, via) ==
  LET r == IF via = "next" THEN EventNext(stream[s])
           ELSE EventOptionNext(stream[s]) IN
  /\ srcAt[s] = "caller"
  /\ r.st # "pending"
  /\ stream' = [stream EXCEPT ![s] = r.ch]
  /\ got' = [got EXCEPT ![s] = IF r.st = "some" THEN Append(@, r.msg) ELSE @]
  /\ lastRead' = [lastRead EXCEPT ![s] =
                    [via |-> via, st |-> r.st, gone |-> stream[s].tx = 0,
                     qlen |-> Len(stream[s].q)]]
  /\ UNCHANGED <<chanVars, netVars, lsnVars, evVars, subCh, prodAt, srcAt, subLog, sent, lastSend, pub>>

\* The caller drops the stream.
StreamDrop(s) ==
  /\ srcAt[s] = "caller"
  /\ srcAt' = [srcAt EXCEPT ![s] = "dropped"]
  /\ stream' = [stream EXCEPT ![s] = DropSource(@)]
  /\ UNCHANGED <<chanVars, netVars, lsnVars, evVars, subCh, prodAt, subLog, sent, got, lastRead,
                 lastSend, pub>>

NextSubscribe ==
  \/ \E r \in Reqs : Subscribe(r)
  \/ DropSubscribeHandle
  \/ PubAccept
  \/ \E s \in Streams, v \in Events : PubSend(s, v)
  \/ \E s \in Streams : PubDrop(s)
  \/ PubStop
  \/ \E s \in Streams, via \in {"next", "option_next"} : StreamRead(s, via)
  \/ \E s \in Streams : StreamDrop(s)

SpecSub == InitSub /\ [][NextSubscribe]_vars

\* C4: EventSender::send succeeds and appends exactly one message whenever
\* the receiver half exists, whatever the queue length, and fails,
\* enqueuing nothing, exactly when the receiver half is gone.
C4_SendFailsOnlyWhenClosed ==
  lastSend.made =>
    /\ lastSend.ok <=> lastSend.rx
    /\ lastSend.rx => lastSend.enq = 1
    /\ ~lastSend.rx => lastSend.enq = 0

\* A send on a stream the caller has dropped failed, after an earlier send
\* on it had succeeded.
C4_Witness ==
  /\ lastSend.made /\ ~lastSend.rx /\ ~lastSend.ok /\ lastSend.enq = 0
  /\ \E s \in Streams : srcAt[s] = "dropped" /\ Len(sent[s]) >= 1

IsPrefix(a, b) == Len(a) <= Len(b) /\ a = SubSeq(b, 1, Len(a))

PairsOf(s) == {i \in 1..Len(subCh.q) : subCh.q[i].s = s}

\* C6: a successful subscribe(r) has enqueued exactly one pair, carrying r
\* and the producer of the stream it returned; what the caller has read
\* from the stream, followed by what is queued on it, is what the publisher
\* sent on that producer, in order; nothing is sent or read on a stream
\* before its subscribe call has returned.
C6_SubscribeStream ==
  \A s \in Streams :
    /\ (subLog[s].made /\ subLog[s].ret = "Ok")
         => /\ subLog[s].enq = 1
            /\ srcAt[s] # "none"
            /\ Cardinality(PairsOf(s)) = IF prodAt[s] = "queued" THEN 1 ELSE 0
            /\ \A i \in PairsOf(s) : subCh.q[i].req = subLog[s].req
    /\ srcAt[s] = "caller" => got[s] \o stream[s].q = sent[s]
    /\ IsPrefix(got[s], sent[s])
    /\ ~subLog[s].made => sent[s] = <<>> /\ got[s] = <<>> /\ stream[s].q = <<>>

\* The caller has read the two values the publisher sent on its stream.
C6_Witness ==
  \E s \in Streams :
    /\ subLog[s].ret = "Ok"
    /\ Len(got[s]) = 2 /\ got[s] = sent[s] /\ got[s][1] # got[s][2]

ClosureSeen(s) ==
  lastRead[s].via # "none" /\ lastRead[s].st \in {"none", "ChannelClosed"}

\* C7 as stated: a read reports closure only when the event-producer is
\* gone, and every option_next made once it is gone returns the empty
\* outcome.
C7_AsStated ==
  \A s \in Streams :
    /\ ClosureSeen(s) => lastRead[s].gone
    /\ (lastRead[s].via = "option_next" /\ lastRead[s].gone)
         => lastRead[s].st = "none"

\* C7, amended: a read reports closure only when the event-producer has
\* been dropped; an option_next made once it is gone yields a value while
\* one is still queued and the empty outcome, not an error, once the queue
\* is empty.
C7_StreamEndsOnDrop ==
  \A s \in Streams :
    /\ ClosureSeen(s) => lastRead[s].gone /\ prodAt[s] = "dropped"
    /\ (lastRead[s].via = "option_next" /\ lastRead[s].gone)
         => /\ lastRead[s].qlen = 0 => lastRead[s].st = "none"
            /\ lastRead[s].qlen > 0 => lastRead[s].st = "some"

\* The caller read a value from its stream, the producer was dropped, and
\* option_next returned the empty outcome.
C7_Witness ==
  \E s \in Streams :
    /\ Len(got[s]) >= 1 /\ prodAt[s] = "dropped"
    /\ lastRead[s].via = "option_next" /\ lastRead[s].gone
    /\ lastRead[s].st = "none"

\* ----------------------------------------------------- datagram transport
\* Addr: the socket variant and a variant UdpTransport does not support.
Sock(a) == [kind |-> "Socket", at |-> a]
Addrs == {Sock("a1"), Sock("a2"), [kind |-> "Untyped", at |-> "u1"]}
DestSeqs == UNION {[1..n -> Addrs] : n \in 0..MaxDests}

\* M, the application messages of the transport.
Msgs == {[kind |-> "Ping", val |-> 0], [kind |-> "Data", val |-> 1],
         [kind |-> "Data", val |-> 258]}

\* message.into(): M -> N, the wire type: enum { Ping, Data(u16) }.
Into(m) == [tag |-> IF m.kind = "Ping" THEN 0 ELSE 1, val |-> m.val]

\* borsh::to_vec: the variant index in one byte, then the u16 of Data,
\* little-endian.
Encode(n) ==
  IF n.tag = 0 THEN <<0>> ELSE <<1, n.val % 256, n.val \div 256>>

\* Mutant: the u16 of Data is read big-endian.
DecodeBigEndian(b) ==
  IF b = <<0>> THEN [ok |-> TRUE, val |-> [tag |-> 0, val |-> 0]]
  ELSE IF Len(b) = 3 /\ b[1] = 1
    THEN [ok |-> TRUE, val |-> [tag |-> 1, val |-> 256 * b[2] + b[3]]]
  ELSE [ok |-> FALSE, val |-> [tag |-> 0, val |-> 0]]

\* borsh::from_slice: the inverse, an error on an unknown variant index, on
\* missing bytes and on bytes left over.
Decode(b) ==
  IF b = <<0>> THEN [ok |-> TRUE, val |-> [tag |-> 0, val |-> 0]]
  ELSE IF Len(b) = 3 /\ b[1] = 1
    THEN [ok |-> TRUE, val |-> [tag |-> 1, val |-> b[2] + 256 * b[3]]]
  ELSE [ok |-> FALSE, val |-> [tag |-> 0, val |-> 0]]

Idle == call.result # "pending"

\* Mutant: an unsupported destination is skipped and success reported.
SendToCallLenient(dst, m, io) ==
  IF dst.kind # "Socket"
    THEN [call |-> [op |-> "send_to", dests |-> <<dst>>, msg |-> m, i |-> 1,
                    buf |-> <<>>, encodes |-> 0, result |-> "Ok"],
          wire |-> <<>>]
  ELSE LET buf == Encode(Into(m)) IN
       [call |-> [op |-> "send_to", dests |-> <<dst>>, msg |-> m, i |-> 1,
                  buf |-> buf, encodes |-> 1,
                  result |-> IF io = "ok" THEN "Ok" ELSE "Io"],
        wire |-> IF io = "ok" THEN <<[dst |-> dst.at, payload |-> buf]>>
                 ELSE <<>>]

\* UdpTransport::send_to: let-else on the address, then encode, then the
\* socket's send_to, which takes the datagram (io = "ok") or fails.
SendToCall(dst, m, io) ==
  IF dst.kind # "Socket"
    THEN [call |-> [op |-> "send_to", dests |-> <<dst>>, msg |-> m, i |-> 1,
                    buf |-> <<>>, encodes |-> 0,
                    result |-> "UnsupportedAddress"],
          wire |-> <<>>]
  ELSE LET buf == Encode(Into(m)) IN
       [call |-> [op |-> "send_to", dests |-> <<dst>>, msg |-> m, i |-> 1,
                  buf |-> buf, encodes |-> 1,
                  result |-> IF io = "ok" THEN "Ok" ELSE "Io"],
        wire |-> IF io = "ok" THEN <<[dst |-> dst.at, payload |-> buf]>>
                 ELSE <<>>]

SendTo(dst, m, io) ==
  LET r == SendToCall(dst, m, io) IN
  /\ Idle
  /\ call' = r.call
  /\ wire' = r.wire
  /\ UNCHANGED <<chanVars, subVars, lsnVars, evVars>>

\* UdpTransport::send_to_all before its loop: the message is encoded.
SendToAllStart(dests, m) ==
  /\ Idle
  /\ call' = [op |-> "send_to_all", dests |-> dests, msg |-> m, i |-> 1,
              buf |-> Encode(Into(m)), encodes |-> 1,
              result |-> IF dests = <<>> THEN "Ok" ELSE "pending"]
  /\ wire' = <<>>
  /\ UNCHANGED <<chanVars, subVars, lsnVars, evVars>>

\* Mutant: the message is encoded again in every iteration.
SendToAllIterReencode(c, w, io) ==
  LET dst == c.dests[c.i] IN
  IF dst.kind # "Socket"
    THEN [call |-> [c EXCEPT !.result = "UnsupportedAddress"], wire |-> w]
  ELSE IF io = "ok"
    THEN [call |-> [c EXCEPT !.i = @ + 1, !.encodes = @ + 1,
                             !.buf = Encode(Into(c.msg)),
                             !.result = IF c.i = Len(c.dests) THEN "Ok" ELSE @],
          wire |-> Append(w, [dst |-> dst.at, payload |-> Encode(Into(c.msg))])]
  ELSE [call |-> [c EXCEPT !.result = "Io"], wire |-> w]

\* Mutant: an unsupported destination is skipped and the loop goes on.
SendToAllIterSkip(c, w, io) ==
  LET dst == c.dests[c.i] IN
  IF dst.kind # "Socket"
    THEN [call |-> [c EXCEPT !.i = @ + 1,
                             !.result = IF c.i = Len(c.dests)
                                          THEN "UnsupportedAddress" ELSE @],
          wire |-> w]
  ELSE IF io = "ok"
    THEN [call |-> [c EXCEPT !.i = @ + 1,
                             !.result = IF c.i = Len(c.dests) THEN "Ok" ELSE @],
          wire |-> Append(w, [dst |-> dst.at, payload |-> c.buf])]
  ELSE [call |-> [c EXCEPT !.result = "Io"], wire |-> w]

\* One iteration of the loop of send_to_all: bail on a destination that is
\* not a socket address, else send the encoded buffer; `?` ends the call on
\* a failed send; after the last destination the call returns Ok(()).
SendToAllIter(c, w, io) ==
  LET dst == c.dests[c.i] IN
  IF dst.kind # "Socket"
    THEN [call |-> [c EXCEPT !.result = "UnsupportedAddress"], wire |-> w]
  ELSE IF io = "ok"
    THEN [call |-> [c EXCEPT !.i = @ + 1,
                             !.result = IF c.i = Len(c.dests) THEN "Ok" ELSE @],
          wire |-> Append(w, [dst |-> dst.at, payload |-> c.buf])]
  ELSE [call |-> [c EXCEPT !.result = "Io"], wire |-> w]

SendToAllStep(io) ==
  LET r == SendToAllIter(call, wire, io) IN
  /\ call.op = "send_to_all" /\ call.result = "pending"
  /\ call' = r.call
  /\ wire' = r.wire
  /\ UNCHANGED <<chanVars, subVars, lsnVars, evVars>>

InitNet == SubmitIdle({"custom"}) /\ SubIdle /\ NetIdle /\ LsnIdle /\ EvIdle

NextNet ==
  \/ \E dst \in Addrs, m \in Msgs, io \in {"ok", "err"} : SendTo(dst, m, io)
  \/ \E dests \in DestSeqs, m \in Msgs : SendToAllStart(dests, m)
  \/ \E io \in {"ok", "err"} : SendToAllStep(io)

SpecNet == InitNet /\ [][NextNet]_vars

NonSocket(c) == {j \in 1..Len(c.dests) : c.dests[j].kind # "Socket"}

FirstNonSocket(c) == CHOOSE j \in NonSocket(c) : \A k \in NonSocket(c) : j <= k

\* C8: send_to to a destination that is not a socket address returns
\* UnsupportedAddress and no datagram has left the socket in that call.
C8_SendToUnsupported ==
  (call.op = "send_to" /\ call.dests[1].kind # "Socket")
    => call.result = "UnsupportedAddress" /\ wire = <<>>

\* send_to was called with the unsupported address and a Data message.
C8_Witness ==
  /\ call.op = "send_to" /\ call.dests[1].kind = "Untyped"
  /\ call.msg.kind = "Data" /\ call.result = "UnsupportedAddress"

\* C9: send_to_all has encoded the message once, whatever the number of
\* destinations and however far it got; when all destinations are socket
\* addresses and no send failed it returns Ok with one datagram per
\* destination, in order, each carrying the same bytes, which decode to the
\* wire value of the message.
C9_SendToAllEncodesOnce ==
  call.op = "send_to_all" =>
    /\ call.encodes = 1
    /\ (NonSocket(call) = {} /\ call.result \notin {"pending", "Io"})
         => call.result = "Ok"
    /\ call.result = "Ok"
         => /\ Len(wire) = Len(call.dests)
            /\ \A j \in 1..Len(wire) :
                 /\ wire[j].dst = call.dests[j].at
                 /\ wire[j].payload = wire[1].payload
                 /\ Decode(wire[j].payload) = [ok |-> TRUE, val |-> Into(call.msg)]

\* send_to_all to three socket addresses returned Ok for a message whose
\* value needs both bytes.
C9_Witness ==
  /\ call.op = "send_to_all" /\ call.result = "Ok"
  /\ Len(call.dests) = 3 /\ Len(wire) = 3
  /\ call.msg.val = 258

\* C10: a send_to_all that met a destination that is not a socket address
\* (no send having failed before it) returns UnsupportedAddress; the
\* destinations before the first such position were each sent the payload
\* once, in order, and nothing was sent to that position or a later one;
\* UnsupportedAddress is returned in no other case.
C10_ShortCircuit ==
  call.op = "send_to_all" =>
    /\ (NonSocket(call) # {} /\ call.result \notin {"pending", "Io"})
         => /\ call.result = "UnsupportedAddress"
            /\ Len(wire) = FirstNonSocket(call) - 1
            /\ \A j \in 1..Len(wire) :
                 wire[j] = [dst |-> call.dests[j].at, payload |-> call.buf]
    /\ call.result = "UnsupportedAddress" => NonSocket(call) # {}

\* send_to_all stopped at an unsupported second destination: the first was
\* sent the payload, the third nothing.
C10_Witness ==
  /\ call.op = "send_to_all" /\ call.result = "UnsupportedAddress"
  /\ Len(call.dests) = 3 /\ FirstNonSocket(call) = 2
  /\ call.dests[3].kind = "Socket"
  /\ Len(wire) = 1

\* ------------------------------------------------------------ receive loop
\* The address the socket is bound to, as UdpTransport::addr() reports it.
SelfAddr == Sock("a1")

\* The messages sent to the socket in SpecListen, and a datagram from
\* elsewhere that is no encoding: the Data variant with a byte missing.
ListenMsgs == {m \in Msgs : m.val # 1}
Malformed == {<<1, 2>>}

\* The sender's message of a datagram that came from elsewhere: not known.
NoMsg == [kind |-> "None", val |-> 0]

\* .into(): N -> E, the event type of the receiving side.
Event(n) == [ev |-> "Recv", msg |-> n]

\* The tasks that hold a clone of the stop token; each requests once.
Cancellers == {"k1", "k2"}

\* Mutant: a token whose cancel() flips the flag.
TokenCancelToggle(tok) == [tok EXCEPT !.cancelled = ~@]

\* CancellationToken::cancel: sets the flag, for every clone and waiter.
TokenCancel(tok) == [tok EXCEPT !.cancelled = TRUE]

\* Mutant: the datagram is peeked at and left in the socket.
SocketPeek(q) == [id |-> Head(q), q |-> q]

\* recv_from on the shared socket: the oldest datagram, removed from it.
SocketRecv(q) == [id |-> Head(q), q |-> Tail(q)]

\* The recv_from arm of select! can win: the session is at the select and a
\* datagram is in the socket. The macro polls its arms in random order, so
\* a cancelled token does not disable this arm.
CanRecv(s, q) == s.st = "Running" /\ s.pc = "select" /\ q # <<>>

\* Mutant: the cancellation arm of the select! never wins.
CanStopNever(s, tok) == FALSE

\* Mutant: cancellation ends the session wherever it is in the iteration.
CanStopAnywhere(s, tok) == s.st = "Running" /\ tok.cancelled

\* The stop.cancelled() arm of select! can win.
CanStop(s, tok) == s.st = "Running" /\ s.pc = "select" /\ tok.cancelled

\* Mutant: a datagram that does not decode is skipped.
ProcessOutcomeSkip(payload, ch) ==
  LET d == Decode(payload)
      x == EventSend(ch, Event(d.val)) IN
  IF ~d.ok
    THEN [st |-> "Running", err |-> "none", ch |-> ch, sent |-> FALSE,
          ev |-> Event(d.val)]
  ELSE IF x.ok
    THEN [st |-> "Running", err |-> "none", ch |-> x.ch, sent |-> TRUE,
          ev |-> Event(d.val)]
  ELSE [st |-> "Failed", err |-> "ChannelClosed", ch |-> ch, sent |-> FALSE,
        ev |-> Event(d.val)]

\* event.send(borsh::from_slice::<M>(&buf[..len])?.into())?
ProcessOutcome(payload, ch) ==
  LET d == Decode(payload)
      x == EventSend(ch, Event(d.val)) IN
  IF ~d.ok
    THEN [st |-> "Failed", err |-> "Codec", ch |-> ch, sent |-> FALSE,
          ev |-> Event(d.val)]
  ELSE IF x.ok
    THEN [st |-> "Running", err |-> "none", ch |-> x.ch, sent |-> TRUE,
          ev |-> Event(d.val)]
  ELSE [st |-> "Failed", err |-> "ChannelClosed", ch |-> ch, sent |-> FALSE,
        ev |-> Event(d.val)]

\* A session that returns drops the EventSender it was given.
DropSender(ch) == [ch EXCEPT !.tx = @ - 1]

\* listen_session is called: the buffer is allocated, the loop entered.
SessionStart(l) ==
  /\ sess[l].st = "Idle"
  /\ sess' = [sess EXCEPT ![l].st = "Running"]
  /\ UNCHANGED <<chanVars, subVars, netVars, evVars, sockq, arrived, stop,
                 nreq, taken, evCh, published>>

\* send_to(addr(), m) on a transport of the socket: the datagram it sends
\* is delivered to the socket's own receive queue.
SelfSend(m) ==
  LET r == SendToCall(SelfAddr, m, "ok") IN
  /\ Len(arrived) < MaxDgrams
  /\ r.call.result = "Ok"
  /\ r.wire[1].dst = SelfAddr.at
  /\ arrived' = Append(arrived, [payload |-> r.wire[1].payload, msg |-> m,
                                 late |-> stop.cancelled])
  /\ sockq' = Append(sockq, Len(arrived) + 1)
  /\ UNCHANGED <<chanVars, subVars, netVars, evVars, stop, nreq, sess, taken,
                 evCh, published>>

\* A datagram from another sender arrives.
ForeignArrive(b) ==
  /\ Len(arrived) < MaxDgrams
  /\ arrived' = Append(arrived, [payload |-> b, msg |-> NoMsg,
                                 late |-> stop.cancelled])
  /\ sockq' = Append(sockq, Len(arrived) + 1)
  /\ UNCHANGED <<chanVars, subVars, netVars, evVars, stop, nreq, sess, taken,
                 evCh, published>>

\* Some holder of a clone of the token requests cancellation.
Cancel ==
  /\ nreq < Cardinality(Cancellers)
  /\ nreq' = nreq + 1
  /\ stop' = TokenCancel(stop)
  /\ UNCHANGED <<chanVars, subVars, netVars, evVars, sockq, arrived, sess,
                 taken, evCh, published>>

\* select!: the recv_from arm wins and returns a datagram.
SessionTake(l) ==
  LET r == SocketRecv(sockq) IN
  /\ CanRecv(sess[l], sockq)
  /\ sockq' = r.q
  /\ sess' = [sess EXCEPT ![l].pc = "got", ![l].cur = r.id]
  /\ taken' = [taken EXCEPT ![l] = Append(@, [id |-> r.id,
                                              pre |-> ~stop.cancelled])]
  /\ UNCHANGED <<chanVars, subVars, netVars, evVars, arrived, stop, nreq,
                 evCh, published>>

\* select!: the recv_from arm wins with an error, which `?` returns.
SessionIoError(l) ==
  /\ sess[l].st = "Running" /\ sess[l].pc = "select"
  /\ sess' = [sess EXCEPT ![l].st = "Failed", ![l].err = "Io",
                          ![l].ret = "Err"]
  /\ evCh' = DropSender(evCh)
  /\ UNCHANGED <<chanVars, subVars, netVars, evVars, sockq, arrived, stop,
                 nreq, taken, published>>

\* select!: the stop.cancelled() arm wins: break Ok(()).
SessionStop(l) ==
  /\ CanStop(sess[l], stop)
  /\ sess' = [sess EXCEPT ![l].st = "Stopped", ![l].pc = "select",
                          ![l].cur = 0, ![l].ret = "Ok"]
  /\ evCh' = DropSender(evCh)
  /\ UNCHANGED <<chanVars, subVars, netVars, evVars, sockq, arrived, stop,
                 nreq, taken, published>>

\* The rest of the iteration: decode, convert, publish; back to the select,
\* or out of the loop with the error.
SessionProcess(l) ==
  LET id == sess[l].cur
      r == ProcessOutcome(arrived[id].payload, evCh) IN
  /\ sess[l].st = "Running" /\ sess[l].pc = "got"
  /\ sess' = [sess EXCEPT ![l].st = r.st, ![l].pc = "select", ![l].cur = 0,
                          ![l].err = r.err,
                          ![l].ret = IF r.st = "Failed" THEN "Err" ELSE @]
  /\ evCh' = IF r.st = "Failed" THEN DropSender(r.ch) ELSE r.ch
  /\ published' = IF r.sent
                    THEN Append(published, [by |-> l, id |-> id, val |-> r.ev,
                                            req |-> stop.cancelled])
                  ELSE published
  /\ UNCHANGED <<chanVars, subVars, netVars, evVars, sockq, arrived, stop,
                 nreq, taken>>

\* The consumer of the events drops the EventSource.
EventsDrop ==
  /\ evCh.rx
  /\ evCh' = DropSource(evCh)
  /\ UNCHANGED <<chanVars, subVars, netVars, evVars, sockq, arrived, stop,
                 nreq, sess, taken, published>>

InitListen == SubmitIdle({"custom"}) /\ SubIdle /\ NetIdle /\ LsnIdle /\ EvIdle

NextListen ==
  \/ \E l \in Sessions : SessionStart(l)
  \/ \E m \in ListenMsgs : SelfSend(m)
  \/ \E b \in Malformed : ForeignArrive(b)
  \/ Cancel
  \/ \E l \in Sessions : SessionTake(l)
  \/ \E l \in Sessions : SessionIoError(l)
  \/ \E l \in Sessions : SessionStop(l)
  \/ \E l \in Sessions : SessionProcess(l)
  \/ EventsDrop

SpecListen == InitListen /\ [][NextListen]_vars

\* The select! polls its arms in random order at every iteration and a
\* woken task is polled again: an arm that stays or keeps becoming ready
\* wins in the end, and an iteration under way is finished.
SpecListenFair ==
  /\ SpecListen
  /\ \A l \in Sessions : SF_vars(SessionStop(l)) /\ WF_vars(SessionProcess(l))

\* ------------------------------------------------------------------- C11
SessionRunning(l) == sess[l].st = "Running"

StopReturnsOk ==
  \A l \in Sessions :
    sess[l].st = "Stopped" => sess[l].ret = "Ok" /\ stop.cancelled

StoppedStays ==
  \A l \in Sessions : sess[l].st = "Stopped" => sess'[l] = sess[l]

\* C11: once the stop token is cancelled a running receive loop stops
\* receiving and its session ends; a session ended by the token has returned
\* Ok, and takes no datagram afterwards.
C11_CancelEndsSession ==
  /\ \A l \in Sessions :
       (stop.cancelled /\ SessionRunning(l)) ~> ~SessionRunning(l)
  /\ [](StopReturnsOk)
  /\ [][StoppedStays /\ \A l \in Sessions :
          sess[l].st = "Stopped" => taken'[l] = taken[l]]_vars

C11_Witness ==
  \E l \in Sessions :
    /\ sess[l].st = "Stopped" /\ sess[l].ret = "Ok"
    /\ taken[l] # <<>> /\ sockq # <<>>

\* ------------------------------------------------------------------- C12
\* The datagrams a session has got from recv_from, and those it published.
TakenIds(l) == {taken[l][i].id : i \in 1..Len(taken[l])}
PublishedBy(l) ==
  {published[j].id : j \in {k \in 1..Len(published) : published[k].by = l}}

\* C12: a session that reports Stopped has decoded and published every
\* datagram recv_from had returned to it, those returned before the
\* cancellation request included.
C12_NoLossOnCancel ==
  \A l \in Sessions :
    sess[l].st = "Stopped" =>
      \A i \in 1..Len(taken[l]) : taken[l][i].id \in PublishedBy(l)

\* A datagram taken before the request and published after it, by a session
\* that then stopped.
C12_Witness ==
  \E l \in Sessions :
    /\ sess[l].st = "Stopped"
    /\ \E i \in 1..Len(taken[l]) : \E j \in 1..Len(published) :
         /\ taken[l][i].pre
         /\ published[j].by = l /\ published[j].id = taken[l][i].id
         /\ published[j].req

\* ------------------------------------------------------------------- C13
\* C13 as stated: no session takes or publishes a datagram that arrived
\* after cancellation was requested.
C13_AsStated ==
  /\ \A l \in Sessions : \A i \in 1..Len(taken[l]) :
       ~arrived[taken[l][i].id].late
  /\ \A j \in 1..Len(published) : ~arrived[published[j].id].late

\* ------------------------------------------------------------------- C14
Decodable(id) == Decode(arrived[id].payload).ok

\* The datagrams whose iteration the session has finished.
Processed(l) ==
  {taken[l][i].id :
     i \in {k \in 1..Len(taken[l]) : sess[l].pc = "select" \/ k < Len(taken[l])}}

FailureCauses ==
  \A l \in Sessions :
    /\ \A id \in Processed(l) :
         /\ ~Decodable(id) =>
              /\ sess[l].st = "Failed" /\ sess[l].err = "Codec"
              /\ id = taken[l][Len(taken[l])].id
         /\ (Decodable(id) /\ id \notin PublishedBy(l)) =>
              /\ sess[l].st = "Failed" /\ sess[l].err = "ChannelClosed"
              /\ id = taken[l][Len(taken[l])].id
         /\ ~Decodable(id) => id \notin PublishedBy(l)
    /\ sess[l].err = "ChannelClosed" => ~evCh.rx
    /\ sess[l].st = "Failed" <=> sess[l].err # "none"
    /\ sess[l].st = "Failed" => sess[l].ret = "Err"

FailedStays ==
  \A l \in Sessions :
    sess[l].st = "Failed" =>
      /\ sess'[l] = sess[l] /\ taken'[l] = taken[l]
      /\ \A j \in 1..Len(published') : published'[j].by = l => j <= Len(published)

\* C14: a datagram that does not decode ends the session Failed with a Codec
\* error, a publish on a channel whose receiver is gone ends it Failed with
\* ChannelClosed; the failing datagram is the last the session took, it is
\* not published, and a Failed session takes and publishes nothing more.
C14_FailureEndsSession == [](FailureCauses) /\ [][FailedStays]_vars

C14_Witness ==
  /\ \E l \in Sessions : sess[l].st = "Failed" /\ sess[l].err = "Codec"
  /\ \E l \in Sessions : sess[l].st = "Failed" /\ sess[l].err = "ChannelClosed"

\* ------------------------------------------------------------------- C15
\* The ids a session published, in the order it published them.
RECURSIVE PublishedSeq(_, _)
PublishedSeq(l, n) ==
  IF n = 0 THEN <<>>
  ELSE IF published[n].by = l
    THEN Append(PublishedSeq(l, n - 1), published[n].id)
  ELSE PublishedSeq(l, n - 1)

TakenSeq(l) == [i \in 1..Len(taken[l]) |-> taken[l][i].id]

RoundTrip ==
  /\ \A j \in 1..Len(published) :
       /\ arrived[published[j].id].msg \in ListenMsgs
       /\ published[j].val = Event(Into(arrived[published[j].id].msg))
       /\ \A k \in 1..Len(published) :
            published[k].id = published[j].id => k = j
  /\ \A l \in Sessions :
       /\ sess[l].st \in {"Running", "Stopped"} =>
            \A id \in Processed(l) :
              arrived[id].msg \in ListenMsgs => id \in PublishedBy(l)
       /\ IsPrefix(PublishedSeq(l, Len(published)), TakenSeq(l))
       /\ \A i, k \in 1..Len(taken[l]) : i < k => taken[l][i].id < taken[l][k].id
       /\ sess[l].st = "Stopped" => stop.cancelled /\ sess[l].ret = "Ok"

\* C15: every message sent to the socket's own address with send_to and
\* received by a session that goes on running is published as one event
\* whose value is the message converted, never twice; a session publishes in
\* the order it received; once cancelled, a session that was started does
\* not go on running: it reports Stopped unless an error made it fail.
C15_RoundTrip ==
  /\ [](RoundTrip)
  /\ \A l \in Sessions :
       []<>(stop.cancelled =>
              sess[l].st = "Idle" \/ sess[l].st = "Stopped" \/ sess[l].err # "none")

\* Both messages sent to self, received and published in order by one
\* session, which was then cancelled and stopped.
C15_Witness ==
  \E l \in Sessions :
    /\ sess[l].st = "Stopped"
    /\ Len(published) = 2
    /\ \A j \in 1..2 : published[j].by = l /\ published[j].id = j
    /\ published[1].val # published[2].val
    /\ published[2].val = Event(Into([kind |-> "Data", val |-> 258]))

\* ------------------------------------------------------------------- C16
AllEnded == \A l \in Sessions : sess[l].st # "Running"

RepeatedCancel ==
  (stop.cancelled /\ nreq' # nreq) =>
    /\ stop' = stop /\ sess' = sess
    /\ UNCHANGED <<sockq, arrived, taken, evCh, published>>

\* C16: one cancellation request reaches every session on the token: all of
\* them leave Running with no further step of the requester; the token stays
\* cancelled, and a request on a cancelled token changes nothing.
C16_CancelBroadcast ==
  /\ stop.cancelled ~> AllEnded
  /\ [][RepeatedCancel /\ (stop.cancelled => stop'.cancelled)]_vars
  /\ [][(\E l \in Sessions : sess[l].st # "Stopped" /\ sess'[l].st = "Stopped")
          => nreq' = nreq]_vars

C16_Witness ==
  /\ nreq = Cardinality(Cancellers)
  /\ \A l \in Sessions : sess[l].st = "Stopped"

\* ------------------------------------------------------------------- C17
\* C17: a datagram is taken by at most one session and once, and published
\* at most once, by the session that took it.
C17_Demultiplexed ==
  /\ \A l \in Sessions : \A i, k \in 1..Len(taken[l]) :
       taken[l][i].id = taken[l][k].id => i = k
  /\ \A l, m \in Sessions : l # m => TakenIds(l) \cap TakenIds(m) = {}
  /\ \A j, k \in 1..Len(published) :
       published[j].id = published[k].id => j = k
  /\ \A j \in 1..Len(published) : published[j].id \in TakenIds(published[j].by)
  /\ \A id \in 1..Len(arrived) :
       \/ \E i \in 1..Len(sockq) : sockq[i] = id
       \/ \E l \in Sessions : id \in TakenIds(l)

\* The second session took the first datagram, the first session the
\* second, and both were published.
C17_Witness ==
  /\ 1 \in TakenIds("l2") /\ 2 \in TakenIds("l1")
  /\ 1 \in PublishedBy("l2") /\ 2 \in PublishedBy("l1")

\* ------------------------------------------------------------------- C18
\* C18 as stated: Null::submit_loop does not end with an error when a reply
\* finds its receiver dropped; it ends, with success, only on a closed
\* request channel.
C18_AsStated ==
  server.kind = "null" =>
    /\ server.exit # "err"
    /\ server.exit = "ok" => lastRecv.st = "none"

\* ------------------------------------------------------------------- C20
\* A responder task that runs is polled again; so is a caller whose promise
\* became ready.
SpecFair ==
  /\ Spec
  /\ \A c \in Clients : WF_vars(SubmitAwait(c))

QueuedCalls == {submitCh.q[i].p : i \in 1..Len(submitCh.q)}

Suspended(c) == cpc[c].st = "awaiting"

\* The step that drops the submit source, for the pairs it leaves unread
\* (Null::submit_loop reads the head and fails on it in the same step).
SourceDropped ==
  (submitCh.rx /\ ~submitCh'.rx) =>
    \A p \in {x \in QueuedCalls : resolved'[x] = resolved[x]} :
      /\ promise'[p].tx = "dropped"
      /\ PromiseAwait(promise'[p]).st = "ready"
      /\ PromiseAwait(promise'[p]).out = Err("RequestFailed")

DroppedStays ==
  \A p \in Calls :
    promise[p].tx = "dropped" =>
      /\ promise'[p].tx = "dropped"
      /\ obs'[p] # obs[p] => obs'[p] = Append(obs[p], Err("RequestFailed"))

\* C20: when the submit source is dropped every pair still queued goes with
\* it, producer included; a call suspended on such a producer is ready with
\* RequestFailed and returns nothing else; and no call stays suspended
\* once the source is gone: again and again the source is alive or no
\* caller is suspended.
C20_NoHangOnServerDrop ==
  /\ [][SourceDropped /\ DroppedStays]_vars
  /\ []<>(submitCh.rx \/ \A c \in Clients : ~Suspended(c))

\* A call returned RequestFailed whose pair the responder never read.
C20_Witness ==
  \E p \in Calls :
    /\ sendLog[p].made /\ sendLog[p].enq = 1
    /\ obs[p] = <<Err("RequestFailed")>>
    /\ resolved[p] = <<>>
    /\ server.pc = "stopped" /\ server.cur = 0
    /\ lastRecv.via = "none"

\* ------------------------------------------------------- event channel
\* The messages a producer has sent so far.
SentBy(i) == Cardinality({k \in 1..Len(esent) : esent[k].by = i})

\* impl Clone for EventSender: a producer hands a clone to another.
ProducerClone(i, j) ==
  /\ eprod[i] /\ ~eprod[j]
  /\ eprod' = [eprod EXCEPT ![j] = TRUE]
  /\ ech' = [ech EXCEPT !.tx = @ + 1]
  /\ UNCHANGED <<chanVars, subVars, netVars, lsnVars, esent, egot, eclosed>>

\* EventSender::send of the producer's next message.
ProducerSend(i) ==
  LET m == [by |-> i, n |-> SentBy(i) + 1]
      r == EventSend(ech, m) IN
  /\ eprod[i] /\ SentBy(i) < MaxMsgs
  /\ ech' = r.ch
  /\ esent' = IF r.ok THEN Append(esent, m) ELSE esent
  /\ UNCHANGED <<chanVars, subVars, netVars, lsnVars, eprod, egot, eclosed>>

\* The producer drops its EventSender.
ProducerDrop(i) ==
  /\ eprod[i]
  /\ eprod' = [eprod EXCEPT ![i] = FALSE]
  /\ ech' = [ech EXCEPT !.tx = @ - 1]
  /\ UNCHANGED <<chanVars, subVars, netVars, lsnVars, esent, egot, eclosed>>

\* EventSource::next / option_next by the consumer.
ConsumerRead(via) ==
  LET r == IF via = "next" THEN EventNext(ech) ELSE EventOptionNext(ech) IN
  /\ ech.rx
  /\ r.st # "pending"
  /\ ech' = r.ch
  /\ IF r.st = "some"
       THEN /\ egot' = Append(egot, r.msg)
            /\ eclosed' = [eclosed EXCEPT
                             !.drained = IF ech.tx = 0 THEN @ + 1 ELSE @]
       ELSE /\ egot' = egot
            /\ eclosed' = [eclosed EXCEPT !.seen = r.st]
  /\ UNCHANGED <<chanVars, subVars, netVars, lsnVars, eprod, esent>>

\* The consumer drops the EventSource.
ConsumerDrop ==
  /\ ech.rx
  /\ ech' = DropSource(ech)
  /\ UNCHANGED <<chanVars, subVars, netVars, lsnVars, eprod, esent, egot,
                 eclosed>>

InitEvent == SubmitIdle({"custom"}) /\ SubIdle /\ NetIdle /\ LsnIdle /\ EvIdle

NextEvent ==
  \/ \E i, j \in Producers : ProducerClone(i, j)
  \/ \E i \in Producers : ProducerSend(i)
  \/ \E i \in Producers : ProducerDrop(i)
  \/ \E via \in {"next", "option_next"} : ConsumerRead(via)
  \/ ConsumerDrop

SpecEvent == InitEvent /\ [][NextEvent]_vars

\* ------------------------------------------------------------------- C19
\* C19: while the receiver lives, what it has been yielded followed by what
\* is queued is what was sent with success, in that order: nothing is lost,
\* yielded twice or out of a producer's order; and the receiver observes
\* closure only when every producer is gone and every message sent was
\* yielded.
C19_ExactlyOnceInOrder ==
  /\ ech.rx => egot \o ech.q = esent
  /\ IsPrefix(egot, esent)
  /\ \A j, k \in 1..Len(egot) :
       /\ egot[j] = egot[k] => j = k
       /\ (j < k /\ egot[j].by = egot[k].by) => egot[j].n < egot[k].n
  /\ eclosed.seen # "no" => ech.tx = 0 /\ egot = esent /\ ech.q = <<>>
  /\ eclosed.seen \in {"no", "none", "ChannelClosed"}

\* Closure observed after messages of both producers, one of them yielded
\* when the last producer was already gone.
C19_Witness ==
  /\ eclosed.seen # "no" /\ eclosed.drained > 0
  /\ \A i \in Producers : \E k \in 1..Len(egot) : egot[k].by = i
  /\ Len(egot) >= 3

====
